---- MODULE Spec2Model ----
(***************************************************************************)
(* The .gnw binary encoder of the Game & Watch support tool:               *)
(*   src/support/src/encode_format.rs  (encode, build_config,              *)
(*       input_value_for_port, build_mask_map, insert_mask_entry_bytes,    *)
(*       entry_to_bytes, find_rom_by_hash)                                 *)
(*   src/support/src/main.rs           (the per-device batch loop)         *)
(*                                                                         *)
(* Conventions.  Option<T> is a sequence: <<>> is None, <<v>> is Some(v).  *)
(* A byte buffer (Vec<u8>) is a sequence of naturals below 256.  A bitvec  *)
(* is a sequence of bits, element 1 being bit 0 (Lsb0 order, and the       *)
(* little-endian store of the targets the tool is built for).  An f32      *)
(* screen dimension is a natural counting halves (5 is 2.5).  A message    *)
(* (the String of an Err or of a panic) is a record of the texts, the      *)
(* paths and the numbers it is formatted from, each in order.              *)
(***************************************************************************)
EXTENDS Integers, Sequences, FiniteSets, TLC

VARIABLES
    pc,                 \* position of the program
    git_sha,            \* env!("VERGEN_GIT_SHA"), fixed when the tool is built
    platform,           \* the PlatformSpecification being encoded
    background_bytes,   \* RenderedData.background_bytes (RGBA)
    mask_bytes,         \* RenderedData.mask_bytes (RGBA)
    pixels_to_mask_id,  \* RenderedData.pixels_to_mask_id, row-major
    asset_dir,          \* the asset directory as the file system shows it
    output_dir,         \* the output directory: writable flag and files
    config,             \* encode's buffer config
    result,             \* what encode returned (or that it panicked)
    scan,               \* locals of build_mask_map while it runs
    manifest,           \* main: the devices still to process, in order
    installed,          \* main: installed, from the command line
    counts              \* main: platform/success/skip/fail counters

vars == <<pc, git_sha, platform, background_bytes, mask_bytes,
          pixels_to_mask_id, asset_dir, output_dir, config, result, scan,
          manifest, installed, counts>>

----------------------------------------------------------------------------
(* Option<T> *)

None == <<>>

Some(v) == <<v>>

IsSome(o) == Len(o) = 1

Unwrap(o) == o[1]

----------------------------------------------------------------------------
(* Messages *)

Message(text, paths, numbers) == [text |-> text, paths |-> paths, numbers |-> numbers]

Text(t) == Message(<<t>>, <<>>, <<>>)

----------------------------------------------------------------------------
(* Integer widths *)

U8 == 256

U16 == 65536

Pow2(n) == 2 ^ n

\* n pushes of the byte b
Repeat(b, n) == [i \in 1..n |-> b]

----------------------------------------------------------------------------
(* bitvec: BitVec<u8, Lsb0>, BitField::store, Into<Vec<u8>> *)

\* bitvec![u8, Lsb0; 0; n]
ZeroBits(n) == [i \in 1..n |-> 0]

\* data[lo..hi].store::<u16>(value): the low (hi - lo) bits of the u16,
\* least significant first; higher bits of the value are discarded.
StoreU16(data, lo, hi, value) ==
    [i \in 1..Len(data) |->
        IF lo < i /\ i <= hi
        THEN ((value % U16) \div Pow2(i - lo - 1)) % 2
        ELSE data[i]]

\* data.into(): the bytes of the bit vector, bit 0 of each byte first
BitsToBytes(data) ==
    [k \in 1..(Len(data) \div 8) |->
          data[8 * (k - 1) + 1]       + data[8 * (k - 1) + 2] * 2
        + data[8 * (k - 1) + 3] * 4   + data[8 * (k - 1) + 4] * 8
        + data[8 * (k - 1) + 5] * 16  + data[8 * (k - 1) + 6] * 32
        + data[8 * (k - 1) + 7] * 64  + data[8 * (k - 1) + 8] * 128]

----------------------------------------------------------------------------
(* manifest types: Action, NamedAction, Port, CPUType, Screen *)

Actions ==
    {"JoyUp", "JoyDown", "JoyLeft", "JoyRight",
     "Button1", "Button2", "Button3", "Button4",
     "Button5", "Button6", "Button7", "Button8",
     "Select", "Start1", "Start2", "Service1", "Service2",
     "LeftJoyUp", "LeftJoyDown", "LeftJoyLeft", "LeftJoyRight",
     "RightJoyUp", "RightJoyDown", "RightJoyLeft", "RightJoyRight",
     "VolumeDown", "PowerOn", "PowerOff", "Keypad", "Custom", "Unused"}

NamedAction(a, low) == [action |-> a, active_low |-> low]

NamedActions == {NamedAction(a, low) : a \in Actions, low \in BOOLEAN}

PortS(index, bitmap) == [kind |-> "S", index |-> index, bitmap |-> bitmap]

PortACL(bit) == [kind |-> "ACL", bit |-> bit]

PortB(bit) == [kind |-> "B", bit |-> bit]

PortBA(bit) == [kind |-> "BA", bit |-> bit]

CPUTypes ==
    {"SM510", "SM511", "SM512", "SM530", "SM5a", "SM510Tiger",
     "SM511Tiger1Bit", "SM511Tiger2Bit", "KB1013VK12"}

ScreenSize(w, h) == [width |-> w, height |-> h]

\* Single{width,height} has one size; the dual variants have two, first
\* being top (DualVertical) or left (DualHorizontal).
Screen(kind, first, second) == [kind |-> kind, first |-> first, second |-> second]

----------------------------------------------------------------------------
(* input_value_for_port *)

ActionOrdinal(a) ==
    CASE a = "JoyUp" -> 0
      [] a = "JoyDown" -> 1
      [] a = "JoyLeft" -> 2
      [] a = "JoyRight" -> 3
      [] a = "Button1" -> 4
      [] a = "Button2" -> 5
      [] a = "Button3" -> 6
      [] a = "Button4" -> 7
      [] a = "Button5" -> 8
      [] a = "Button6" -> 9
      [] a = "Button7" -> 10
      [] a = "Button8" -> 11
      [] a = "Select" -> 12
      [] a = "Start1" -> 13
      [] a = "Start2" -> 14
      [] a = "Service1" -> 15
      [] a = "Service2" -> 16
      [] a = "LeftJoyUp" -> 17
      [] a = "LeftJoyDown" -> 18
      [] a = "LeftJoyLeft" -> 19
      [] a = "LeftJoyRight" -> 20
      [] a = "RightJoyUp" -> 21
      [] a = "RightJoyDown" -> 22
      [] a = "RightJoyLeft" -> 23
      [] a = "RightJoyRight" -> 24
      [] a = "VolumeDown" -> 25
      [] a = "PowerOn" -> 26
      [] a = "PowerOff" -> 27
      [] a = "Keypad" -> 28
      [] a = "Custom" -> 29
      [] a = "Unused" -> 127

\* input |= 0x80 on an ordinal below 0x80
input_value_for_port_swapped(action) ==
    IF action.active_low THEN ActionOrdinal(action.action)
    ELSE ActionOrdinal(action.action) + 128

input_value_for_port(action) ==
    IF action.active_low THEN ActionOrdinal(action.action) + 128
    ELSE ActionOrdinal(action.action)

----------------------------------------------------------------------------
(* build_config *)

MpuVersion(cpu) ==
    CASE cpu = "SM510" -> 0
      [] cpu = "SM511" -> 1
      [] cpu = "SM512" -> 2
      [] cpu = "SM530" -> 3
      [] cpu = "SM5a" -> 4
      [] cpu = "SM510Tiger" -> 5
      [] cpu = "SM511Tiger1Bit" -> 6
      [] cpu = "SM511Tiger2Bit" -> 7
      [] cpu = "KB1013VK12" -> 8

\* (screen, width, height) of the match on platform.device.screen; the
\* println! of a size mismatch changes no state.
ScreenConfig(screen) ==
    CASE screen.kind = "Single" ->
            [screen |-> 0, width |-> screen.first.width, height |-> screen.first.height]
      [] screen.kind = "DualVertical" ->
            [screen |-> 1, width |-> screen.first.width, height |-> screen.first.height]
      [] screen.kind = "DualHorizontal" ->
            [screen |-> 2, width |-> screen.first.width, height |-> screen.first.height]

\* f32::round() as u16 of a non-negative value given in halves: ties go
\* away from zero, and the cast saturates at u16::MAX.
RoundAsU16(halves) ==
    LET r == (halves + 1) \div 2
    IN  IF r > U16 - 1 THEN U16 - 1 ELSE r

GeometryBytes_overlapping(width, height) ==
    BitsToBytes(StoreU16(StoreU16(ZeroBits(24), 0, 10, RoundAsU16(width)),
                         8, 18, RoundAsU16(height)))

\* data[0..10].store(width); data[10..20].store(height); data.into()
GeometryBytes(width, height) ==
    BitsToBytes(StoreU16(StoreU16(ZeroBits(24), 0, 10, RoundAsU16(width)),
                         10, 20, RoundAsU16(height)))

\* The state of the loop over platform.port_map.ports
NoPorts ==
    [err |-> None,
     s_ports |-> [i \in 0..7 |-> None],
     b_port |-> None, ba_port |-> None, acl_port |-> None]

AssignPort(st, port) ==
    CASE port.kind = "S" ->
            IF port.index > 7
            THEN [st EXCEPT !.err = Some(Message(<<"Port index ", " is out of bounds">>, <<>>, <<port.index>>))]
            ELSE [st EXCEPT !.s_ports[port.index] = Some(port.bitmap)]
      [] port.kind = "ACL" -> [st EXCEPT !.acl_port = port.bit]
      [] port.kind = "B" -> [st EXCEPT !.b_port = port.bit]
      [] port.kind = "BA" -> [st EXCEPT !.ba_port = port.bit]

\* for port in &platform.port_map.ports, left at the first error
RECURSIVE AssignPorts(_, _)
AssignPorts(st, ports) ==
    IF ports = <<>> \/ IsSome(st.err) THEN st
    ELSE AssignPorts(AssignPort(st, Head(ports)), Tail(ports))

SlotByte(slot) ==
    IF IsSome(slot) THEN input_value_for_port(Unwrap(slot)) ELSE 127

SPortBytes(port) ==
    IF IsSome(port)
    THEN [i \in 1..4 |-> SlotByte(Unwrap(port)[i])]
    ELSE <<127, 127, 127, 127>>

RECURSIVE SPortsBytes(_, _)
SPortsBytes(s_ports, i) ==
    IF i > 7 THEN <<>> ELSE SPortBytes(s_ports[i]) \o SPortsBytes(s_ports, i + 1)

unused_action == NamedAction("Unused", TRUE)

BPortByte(b_port) ==
    IF IsSome(b_port) THEN input_value_for_port(Unwrap(b_port))
    ELSE input_value_for_port([unused_action EXCEPT !.active_low = TRUE])

BAPortByte(ba_port) ==
    IF IsSome(ba_port) THEN input_value_for_port(Unwrap(ba_port))
    ELSE input_value_for_port([unused_action EXCEPT !.active_low = TRUE])

AclPortByte(acl_port) ==
    IF IsSome(acl_port) THEN input_value_for_port(Unwrap(acl_port))
    ELSE input_value_for_port(unused_action)

\* ground_last_index + 1 in u8
GroundIndex(ground_last_index) ==
    IF IsSome(ground_last_index) THEN (Unwrap(ground_last_index) + 1) % U8 ELSE 0

GroundOverflows(ground_last_index) ==
    IsSome(ground_last_index) /\ Unwrap(ground_last_index) + 1 >= U8

\* sha.chars().take(7).map(|c| c as u8), or 7 zeros when sha is empty
ShaStamp(sha) ==
    IF Len(sha) < 1 THEN Repeat(0, 7)
    ELSE [i \in 1..(IF Len(sha) < 7 THEN Len(sha) ELSE 7) |-> sha[i] % U8]

\* build_config.  overflow_checks is the build profile: with it the u8
\* addition of the ground index panics on overflow, without it it wraps.
build_config(p, sha, overflow_checks) ==
    LET sc == ScreenConfig(p.device.screen)
        st == AssignPorts(NoPorts, p.port_map.ports)
    IN  IF IsSome(st.err) THEN [kind |-> "Err", msg |-> Unwrap(st.err)]
        ELSE IF GroundOverflows(p.port_map.ground_last_index) /\ overflow_checks
        THEN [kind |-> "Panic", msg |-> Text("attempt to add with overflow")]
        ELSE [kind |-> "Ok",
              bytes |->
                   <<1, MpuVersion(p.device.cpu), sc.screen>>
                \o GeometryBytes(sc.width, sc.height)
                \o <<0, 0>>
                \o SPortsBytes(st.s_ports, 0)
                \o <<BPortByte(st.b_port), BAPortByte(st.ba_port),
                     AclPortByte(st.acl_port),
                     GroundIndex(p.port_map.ground_last_index)>>
                \o Repeat(0, 4)
                \o Repeat(0, 201)
                \o ShaStamp(sha)]

----------------------------------------------------------------------------
(* build_mask_map, insert_mask_entry_bytes, entry_to_bytes *)

\* const WIDTH (720 in the source): the model's grid is WIDTH x HEIGHT
WIDTH == 2

\* const HEIGHT: usize = WIDTH
HEIGHT == WIDTH

BYTES_PER_ENTRY == 5

\* const AVERAGE_ENTRIES_PER_ROW (52 in the source), scaled with WIDTH so
\* that a row can hold more runs than its share of the capacity
AVERAGE_ENTRIES_PER_ROW == 1

TOTAL_BYTE_LENGTH == BYTES_PER_ENTRY * AVERAGE_ENTRIES_PER_ROW * HEIGHT

\* width of each of the four fields of an entry
FIELD_BITS == 10

entry_to_bytes_y_dropped(id, length, start_x, y) ==
    BitsToBytes(
        StoreU16(
            StoreU16(
                StoreU16(ZeroBits(5 * 8), 0, FIELD_BITS, id),
                FIELD_BITS, 2 * FIELD_BITS, start_x),
            3 * FIELD_BITS, 4 * FIELD_BITS, length))

entry_to_bytes(id, length, start_x, y) ==
    BitsToBytes(
        StoreU16(
            StoreU16(
                StoreU16(
                    StoreU16(ZeroBits(5 * 8), 0, FIELD_BITS, id),
                    FIELD_BITS, 2 * FIELD_BITS, start_x),
                2 * FIELD_BITS, 3 * FIELD_BITS, y),
            3 * FIELD_BITS, 4 * FIELD_BITS, length))

\* The locals of build_mask_map as it enters the loops
ScanStart ==
    [status |-> "pixel", err |-> Text(""),
     output |-> Repeat(0, TOTAL_BYTE_LENGTH), byte_index |-> 0,
     y |-> 0, x |-> 0,
     current_id |-> None, start_x |-> 0, length |-> 0]

CapacityExceeded_late(byte_index) ==
    byte_index + BYTES_PER_ENTRY > TOTAL_BYTE_LENGTH + BYTES_PER_ENTRY

\* *byte_index + BYTES_PER_ENTRY > TOTAL_BYTE_LENGTH
CapacityExceeded(byte_index) ==
    byte_index + BYTES_PER_ENTRY > TOTAL_BYTE_LENGTH

\* insert_mask_entry_bytes on the locals s; an Err leaves build_mask_map
\* at once (the ? of every call).  A write past the end of output panics.
insert_mask_entry_bytes(s, id, length, start_x, y) ==
    IF CapacityExceeded(s.byte_index)
    THEN [s EXCEPT !.status = "Err",
                   !.err = Message(<<"More entries (", ") than allowed (", ")">>, <<>>,
                                   <<s.byte_index + BYTES_PER_ENTRY, TOTAL_BYTE_LENGTH>>)]
    ELSE IF s.byte_index + BYTES_PER_ENTRY > Len(s.output)
    THEN [s EXCEPT !.status = "Panic", !.err = Text("range end index out of range")]
    ELSE LET bytes == entry_to_bytes(id, length, start_x, y)
         IN  [s EXCEPT
                !.output = [i \in 1..Len(s.output) |->
                              IF s.byte_index < i /\ i <= s.byte_index + BYTES_PER_ENTRY
                              THEN bytes[i - s.byte_index]
                              ELSE s.output[i]],
                !.byte_index = s.byte_index + BYTES_PER_ENTRY]

\* for x in 0..WIDTH: the next iteration, or the code after the loop
NextPixel(s) ==
    IF s.status # "pixel" THEN s
    ELSE IF s.x + 1 < WIDTH THEN [s EXCEPT !.x = s.x + 1]
    ELSE [s EXCEPT !.status = "row_end"]

\* One iteration of the loop over x: the body for pixel (s.x, s.y)
ScanPixelBody(s, grid) ==
    LET cell == grid[s.y * WIDTH + s.x + 1]
    IN  IF IsSome(cell)
        THEN IF IsSome(s.current_id)
             THEN IF Unwrap(s.current_id) = Unwrap(cell)
                  THEN [s EXCEPT !.length = s.length + 1]
                  ELSE LET t == insert_mask_entry_bytes(
                                    s, Unwrap(s.current_id), s.length, s.start_x, s.y)
                       IN  IF t.status # "pixel" THEN t
                           ELSE [t EXCEPT !.current_id = cell,
                                          !.start_x = s.x, !.length = 1]
             ELSE [s EXCEPT !.current_id = cell, !.start_x = s.x, !.length = 1]
        ELSE IF IsSome(s.current_id)
             THEN insert_mask_entry_bytes(
                      [s EXCEPT !.current_id = None],
                      Unwrap(s.current_id), s.length, s.start_x, s.y)
             ELSE s

RowEndBody_no_flush(s) ==
    s

\* The straggler at the end of a row
RowEndBody(s) ==
    IF IsSome(s.current_id)
    THEN insert_mask_entry_bytes(s, Unwrap(s.current_id), s.length, s.start_x, s.y)
    ELSE s

\* for y in 0..HEIGHT: the next row with fresh locals, or Ok(output)
NextRow(s) ==
    IF s.status # "row_end" THEN s
    ELSE IF s.y + 1 < HEIGHT
    THEN [s EXCEPT !.status = "pixel", !.y = s.y + 1, !.x = 0,
                   !.current_id = None, !.start_x = 0, !.length = 0]
    ELSE [s EXCEPT !.status = "Ok"]

ScanStep(s, grid) ==
    IF s.status = "pixel" THEN NextPixel(ScanPixelBody(s, grid))
    ELSE NextRow(RowEndBody(s))

RECURSIVE RunScan(_, _)
RunScan(s, grid) ==
    IF s.status \in {"pixel", "row_end"} THEN RunScan(ScanStep(s, grid), grid) ELSE s

\* build_mask_map: Ok(output), or the Err of the first insert that failed
build_mask_map(grid) ==
    LET s == RunScan(ScanStart, grid)
    IN  IF s.status = "Ok" THEN [kind |-> "Ok", bytes |-> s.output]
        ELSE [kind |-> s.status, msg |-> s.err]

----------------------------------------------------------------------------
(* encode: the image block *)

\* background.zip(mask).filter(drop every 4th).flat_map([background, mask])
\* from position i on, count being the closure's counter
RECURSIVE ImageBlockFrom(_, _, _, _)
ImageBlockFrom(background, mask, i, count) ==
    IF i > Len(background) \/ i > Len(mask) THEN <<>>
    ELSE LET next_count == IF count < 3 THEN count + 1 ELSE 0
         IN  (IF count # 3 THEN <<background[i], mask[i]>> ELSE <<>>)
             \o ImageBlockFrom(background, mask, i + 1, next_count)

image_block(background, mask) == ImageBlockFrom(background, mask, 1, 0)

----------------------------------------------------------------------------
(* encode: the ROM, and find_rom_by_hash *)

\* hex::encode(Sha1::digest(data)) of the file contents the model uses:
\* the digests are the real ones, lowercase as hex::encode writes them
Sha1Hex(data) ==
    CASE data = <<1, 2, 3>> -> "7037807198c22a7d2b0807371d763779a84fdfcf"
      [] data = <<4, 5>> -> "942b8d221e13d7c80b531c63629a7243bfecdb7b"
      [] data = <<>> -> "da39a3ee5e6b4b0d3255bfef95601890afd80709"

\* How a file of the asset directory answers the calls made on it:
\*   "ok"        every call succeeds
\*   "direrr"    its directory entry is an Err
\*   "noopen"    File::open fails
\*   "nocopy"    it opens, reading it fails (a directory)
\*   "noseek"    it reads once, seek(Start(0)) fails
\*   "noreread"  it reads once and seeks, read_to_end fails
FileStatuses == {"ok", "direrr", "noopen", "nocopy", "noseek", "noreread"}

FileEntry(name, status, data) == [name |-> name, status |-> status, data |-> data]

\* asset_dir.join(&platform.rom.rom)
RomPath(dir, rom) == <<dir.path, rom>>

\* fs::read(&rom_path): one open and one read of the file of that name
RECURSIVE FsRead(_, _)
FsRead(entries, name) ==
    IF entries = <<>> THEN [kind |-> "Err", msg |-> Text("No such file or directory")]
    ELSE IF Head(entries).name = name
    THEN IF Head(entries).status \in {"ok", "noseek", "noreread"}
         THEN [kind |-> "Ok", bytes |-> Head(entries).data]
         ELSE [kind |-> "Err", msg |-> Text("read failed")]
    ELSE FsRead(Tail(entries), name)

\* The loop of find_rom_by_hash over the entries read_dir lists
RECURSIVE ScanForHash(_, _, _)
ScanForHash(target_hash, dir, entries) ==
    IF entries = <<>> THEN [kind |-> "Err", msg |-> Text("No SHA matched ROM found")]
    ELSE LET entry == Head(entries)
         IN  IF entry.status \in {"direrr", "noopen", "nocopy"}
             THEN ScanForHash(target_hash, dir, Tail(entries))
             ELSE IF Sha1Hex(entry.data) = target_hash
             THEN IF entry.status = "noseek"
                  THEN [kind |-> "Err",
                        msg |-> Text("Could not reread from file after hash check")]
                  ELSE IF entry.status = "noreread"
                  THEN [kind |-> "Err",
                        msg |-> Message(<<"Could not open SHA matched ROM ">>,
                                        <<RomPath(dir, entry.name)>>, <<>>)]
                  ELSE [kind |-> "Ok", bytes |-> entry.data]
             ELSE ScanForHash(target_hash, dir, Tail(entries))

\* fs::read_dir(asset_dir).expect("Could not open temp directory")
find_rom_by_hash(target_hash, dir) ==
    IF ~dir.openable
    THEN [kind |-> "Panic", msg |-> Text("Could not open temp directory")]
    ELSE ScanForHash(target_hash, dir, dir.entries)

\* let mut rom_data = match fs::read(&rom_path) { ... }?
rom_data(p, dir) ==
    LET rom_path == RomPath(dir, p.rom.rom)
        read == FsRead(dir.entries, p.rom.rom)
        found == find_rom_by_hash(p.rom.rom_hash, dir)
    IN  IF read.kind = "Ok" THEN read
        ELSE IF found.kind = "Err"
        THEN [kind |-> "Err",
              msg |-> Message(found.msg.text \o <<"Could not open ROM ">>,
                              found.msg.paths \o <<rom_path>>, found.msg.numbers)]
        ELSE found

----------------------------------------------------------------------------
(* encode: the output path *)

\* game_name after the prefix strip, the replace of ":" and the trim, with
\* ".gnw" added, for the display names the model uses
OutputFileName(name) ==
    CASE name = "Game & Watch: Ball" -> "Ball.gnw"
      [] name = "GAME & WATCH: Ball" -> "Ball.gnw"
      [] name = "Ball" -> "Ball.gnw"
      [] name = "Zelda: Link " -> "Zelda - Link.gnw"

----------------------------------------------------------------------------
(* encode, one action per stage.  pc is the stage about to run; encode    *)
(* leaves with pc = "returned" and its Result in result, or with        *)
(* pc = "panic": a panic unwinds through main and ends the process.       *)

NoResult == [kind |-> "None"]

Return(r) ==
    /\ result' = r
    /\ pc' = IF r.kind = "Panic" THEN "panic" ELSE "returned"

\* let mut config = build_config(platform)?;
EncodeBuildConfig ==
    /\ pc = "build_config"
    /\ \E overflow_checks \in BOOLEAN :
         LET r == build_config(platform, git_sha, overflow_checks)
         IN  IF r.kind = "Ok"
             THEN /\ config' = r.bytes
                  /\ pc' = "image_block"
                  /\ UNCHANGED result
             ELSE /\ Return(r)
                  /\ UNCHANGED config
    /\ UNCHANGED <<git_sha, platform, background_bytes, mask_bytes,
                   pixels_to_mask_id, asset_dir, output_dir, scan, manifest,
                   installed, counts>>

\* config.append(&mut image_block);
EncodeImageBlock ==
    /\ pc = "image_block"
    /\ config' = config \o image_block(background_bytes, mask_bytes)
    /\ pc' = "build_mask_map"
    /\ UNCHANGED <<git_sha, platform, background_bytes, mask_bytes,
                   pixels_to_mask_id, asset_dir, output_dir, result, scan,
                   manifest, installed, counts>>

\* let mut mask_block = build_mask_map(pixels_to_mask_id)?;
\* config.append(&mut mask_block);
EncodeMaskBlock ==
    /\ pc = "build_mask_map"
    /\ LET r == build_mask_map(pixels_to_mask_id)
       IN  IF r.kind = "Ok"
           THEN /\ config' = config \o r.bytes
                /\ pc' = "rom"
                /\ UNCHANGED result
           ELSE /\ Return(r)
                /\ UNCHANGED config
    /\ UNCHANGED <<git_sha, platform, background_bytes, mask_bytes,
                   pixels_to_mask_id, asset_dir, output_dir, scan, manifest,
                   installed, counts>>

\* let mut rom_data = ...?; config.append(&mut rom_data);
EncodeRom ==
    /\ pc = "rom"
    /\ LET r == rom_data(platform, asset_dir)
       IN  IF r.kind = "Ok"
           THEN /\ config' = config \o r.bytes
                /\ pc' = "write"
                /\ UNCHANGED result
           ELSE /\ Return(r)
                /\ UNCHANGED config
    /\ UNCHANGED <<git_sha, platform, background_bytes, mask_bytes,
                   pixels_to_mask_id, asset_dir, output_dir, scan, manifest,
                   installed, counts>>

\* fs::write(&output_path, config).unwrap(); Ok(output_path)
\* The write succeeds or fails as the file system decides.
EncodeWrite ==
    /\ pc = "write"
    /\ LET output_path == OutputFileName(platform.metadata.name)
       IN  \E written \in BOOLEAN :
             IF written
             THEN /\ output_dir' = [output_dir EXCEPT ![output_path] = Some(config)]
                  /\ Return([kind |-> "Ok", path |-> output_path])
             ELSE /\ Return([kind |-> "Panic",
                             msg |-> Text("called Result::unwrap() on an Err value")])
                  /\ UNCHANGED output_dir
    /\ UNCHANGED <<git_sha, platform, background_bytes, mask_bytes,
                   pixels_to_mask_id, asset_dir, config, scan, manifest,
                   installed, counts>>

----------------------------------------------------------------------------
(* build_mask_map, one action per loop iteration *)

\* One iteration of for x in 0..WIDTH
ScanPixel ==
    /\ pc = "scan"
    /\ scan.status = "pixel"
    /\ scan' = ScanStep(scan, pixels_to_mask_id)
    /\ UNCHANGED <<pc, git_sha, platform, background_bytes, mask_bytes,
                   pixels_to_mask_id, asset_dir, output_dir, config, result,
                   manifest, installed, counts>>

\* The end of one iteration of for y in 0..HEIGHT
ScanRowEnd ==
    /\ pc = "scan"
    /\ scan.status = "row_end"
    /\ scan' = ScanStep(scan, pixels_to_mask_id)
    /\ UNCHANGED <<pc, git_sha, platform, background_bytes, mask_bytes,
                   pixels_to_mask_id, asset_dir, output_dir, config, result,
                   manifest, installed, counts>>

----------------------------------------------------------------------------
(* Inputs *)

RomA == <<1, 2, 3>>

RomB == <<4, 5>>

BasePlatform ==
    [device |-> [cpu |-> "SM510",
                 screen |-> Screen("Single", ScreenSize(160, 128), ScreenSize(160, 128))],
     port_map |-> [ports |-> <<>>, ground_last_index |-> None],
     rom |-> [rom |-> "ball.rom", rom_hash |-> Sha1Hex(RomA)],
     metadata |-> [name |-> "Game & Watch: Ball"]]

\* An RGBA buffer of WIDTH x HEIGHT pixels whose bytes count up from `from`
Ramp(from) == [i \in 1..(4 * WIDTH * HEIGHT) |-> (from + i) % U8]

\* Mask ids that fit the 10-bit field: the least and the greatest
MaskIdsInRange == {0, Pow2(FIELD_BITS) - 1}

\* ... and the least u16 that does not
MaskIdsAny == MaskIdsInRange \cup {Pow2(FIELD_BITS)}

Grids(ids) == [1..(WIDTH * HEIGHT) -> {None} \cup {Some(id) : id \in ids}]

EmptyDir == [path |-> "gnw/ball", openable |-> TRUE, entries |-> <<>>]

OutputFiles == {"Ball.gnw", "Zelda - Link.gnw"}

EmptyOutputDir == [f \in OutputFiles |-> None]

NoCounts ==
    [platform_count |-> 0, success_count |-> 0, skip_count |-> 0, fail_count |-> 0]

\* main is not running: nothing to process, nothing counted
MainIdle ==
    /\ manifest = <<>>
    /\ installed = TRUE
    /\ counts = NoCounts

----------------------------------------------------------------------------
(* build_mask_map alone, on every grid over the given ids *)

InitMaskOver(ids) ==
    /\ pc = "scan"
    /\ git_sha = <<>>
    /\ platform = BasePlatform
    /\ background_bytes = Ramp(0)
    /\ mask_bytes = Ramp(100)
    /\ pixels_to_mask_id \in Grids(ids)
    /\ asset_dir = EmptyDir
    /\ output_dir = EmptyOutputDir
    /\ config = <<>>
    /\ result = NoResult
    /\ scan = ScanStart
    /\ MainIdle

InitMask == InitMaskOver(MaskIdsInRange)

InitMaskAny == InitMaskOver(MaskIdsAny)

NextMask == ScanPixel \/ ScanRowEnd

SpecMask == InitMask /\ [][NextMask]_vars

SpecMaskAny == InitMaskAny /\ [][NextMask]_vars

----------------------------------------------------------------------------
(* What the claims about the mask block speak of: the runs of a grid and  *)
(* the reader of the entry stream                                         *)

Cell(grid, x, y) == grid[y * WIDTH + x + 1]

\* A run starts at (x, y) when the cell has an id its left neighbour on the
\* row does not have
RunStartsAt(grid, x, y) ==
    /\ IsSome(Cell(grid, x, y))
    /\ x = 0 \/ Cell(grid, x - 1, y) # Cell(grid, x, y)

\* The length of the run of the id of (x, y) from x to the right
RECURSIVE RunLengthFrom(_, _, _)
RunLengthFrom(grid, x, y) ==
    IF x + 1 < WIDTH /\ Cell(grid, x + 1, y) = Cell(grid, x, y)
    THEN 1 + RunLengthFrom(grid, x + 1, y)
    ELSE 1

\* The maximal runs of the grid from cell number k (row-major, from 0) on
RECURSIVE RunsFrom(_, _)
RunsFrom(grid, k) ==
    IF k >= WIDTH * HEIGHT THEN <<>>
    ELSE LET x == k % WIDTH
             y == k \div WIDTH
         IN  (IF RunStartsAt(grid, x, y)
              THEN <<[id |-> Unwrap(Cell(grid, x, y)), start_x |-> x, y |-> y,
                      length |-> RunLengthFrom(grid, x, y)]>>
              ELSE <<>>)
             \o RunsFrom(grid, k + 1)

Runs(grid) == RunsFrom(grid, 0)

Capacity == AVERAGE_ENTRIES_PER_ROW * HEIGHT

\* The k-th entry (from 1) of a stream, its four fields unpacked
EntryAt(bytes, k) ==
    LET b == [j \in 1..BYTES_PER_ENTRY |-> bytes[BYTES_PER_ENTRY * (k - 1) + j]]
    IN  [id      |-> b[1] + (b[2] % 4) * 256,
         start_x |-> (b[2] \div 4) + (b[3] % 16) * 64,
         y       |-> (b[3] \div 16) + (b[4] % 64) * 16,
         length  |-> (b[4] \div 64) + b[5] * 4]

Entries(bytes) == [k \in 1..(Len(bytes) \div BYTES_PER_ENTRY) |-> EntryAt(bytes, k)]

Covers(e, x, y) == e.y = y /\ e.start_x <= x /\ x < e.start_x + e.length

\* The grid the entries paint, in order, on an empty grid: a cell shows the
\* id of the last entry that covers it
RECURSIVE PaintedBy(_, _, _, _)
PaintedBy(entries, k, x, y) ==
    IF k = 0 THEN None
    ELSE IF Covers(entries[k], x, y) THEN Some(entries[k].id)
    ELSE PaintedBy(entries, k - 1, x, y)

Decode(bytes) ==
    LET entries == Entries(bytes)
    IN  [c \in 1..(WIDTH * HEIGHT) |->
            PaintedBy(entries, Len(entries), (c - 1) % WIDTH, (c - 1) \div WIDTH)]

ScanEnded == pc = "scan" /\ scan.status \in {"Ok", "Err", "Panic"}

InRange(grid) ==
    \A c \in 1..Len(grid) : IsSome(grid[c]) => Unwrap(grid[c]) < Pow2(FIELD_BITS)

\* C1: a grid of ids below 1024 with at most AVERAGE_ENTRIES_PER_ROW * HEIGHT
\* runs is encoded without error, and reading the entries back and painting
\* them on an empty grid gives the grid again, empty cells included.
C1_RoundTrip ==
    (ScanEnded /\ InRange(pixels_to_mask_id)
        /\ Len(Runs(pixels_to_mask_id)) <= Capacity)
    => /\ scan.status = "Ok"
       /\ Decode(scan.output) = pixels_to_mask_id

\* A grid with a gap, two ids and the greatest id, encoded to capacity
C1_Witness ==
    /\ ScanEnded
    /\ scan.status = "Ok"
    /\ Len(Runs(pixels_to_mask_id)) = Capacity
    /\ \E c \in 1..Len(pixels_to_mask_id) : pixels_to_mask_id[c] = None
    /\ \E c \in 1..Len(pixels_to_mask_id) :
            pixels_to_mask_id[c] = Some(Pow2(FIELD_BITS) - 1)
    /\ \E c \in 1..Len(pixels_to_mask_id) : pixels_to_mask_id[c] = Some(0)

\* The entries stored so far are the first runs of the grid, in order
StoredArePrefixOfRuns ==
    LET n == scan.byte_index \div BYTES_PER_ENTRY
        runs == Runs(pixels_to_mask_id)
    IN  /\ scan.byte_index = BYTES_PER_ENTRY * n
        /\ n <= Len(runs)
        /\ \A k \in 1..n : EntryAt(scan.output, k) = runs[k]
        /\ \A i \in (scan.byte_index + 1)..Len(scan.output) : scan.output[i] = 0

\* C2: build_mask_map fails exactly when the grid has more runs than the
\* capacity; it fails at the first entry that does not fit, with every
\* entry before it stored and the buffer full; and when it succeeds every
\* run is stored.
C2_Capacity ==
    /\ pc = "scan" => scan.status # "Panic"
    /\ pc = "scan" => Len(scan.output) = TOTAL_BYTE_LENGTH
    /\ pc = "scan" => StoredArePrefixOfRuns
    /\ ScanEnded =>
        /\ scan.status = "Err" <=> Len(Runs(pixels_to_mask_id)) > Capacity
        /\ scan.status = "Err" => scan.byte_index = TOTAL_BYTE_LENGTH
        /\ scan.status = "Ok" =>
                scan.byte_index = BYTES_PER_ENTRY * Len(Runs(pixels_to_mask_id))

\* Both ends of the capacity: a grid of exactly Capacity runs has ended Ok,
\* or one of more runs has ended in the error
C2_Witness ==
    /\ ScanEnded
    /\ scan.status = "Err"
    /\ Len(Runs(pixels_to_mask_id)) = Capacity + 1

\* C10: the entries are the maximal same-id runs of the grid, one entry a
\* run, in row-major order; each is at least one pixel long and lies within
\* one row; the bytes after the last entry are zero; a grid of one id gives
\* HEIGHT entries.
C10_EntriesAreRuns ==
    (ScanEnded /\ scan.status = "Ok" /\ InRange(pixels_to_mask_id)) =>
        LET n == scan.byte_index \div BYTES_PER_ENTRY
            grid == pixels_to_mask_id
        IN  /\ n = Len(Runs(grid))
            /\ \A k \in 1..n :
                LET e == EntryAt(scan.output, k)
                IN  /\ e = Runs(grid)[k]
                    /\ e.length >= 1
                    /\ e.start_x + e.length <= WIDTH
                    /\ e.y < HEIGHT
                    /\ \A x \in e.start_x..(e.start_x + e.length - 1) :
                            Cell(grid, x, e.y) = Some(e.id)
                    /\ e.start_x > 0 => Cell(grid, e.start_x - 1, e.y) # Some(e.id)
                    /\ e.start_x + e.length < WIDTH =>
                            Cell(grid, e.start_x + e.length, e.y) # Some(e.id)
            /\ \A i \in (scan.byte_index + 1)..Len(scan.output) : scan.output[i] = 0
            /\ (\A c \in 1..Len(grid) : grid[c] = grid[1] /\ IsSome(grid[c])) => n = HEIGHT

\* A grid filled with one id, encoded
C10_Witness ==
    /\ ScanEnded
    /\ scan.status = "Ok"
    /\ \A c \in 1..Len(pixels_to_mask_id) : pixels_to_mask_id[c] = Some(0)
    /\ scan.byte_index = BYTES_PER_ENTRY * HEIGHT


\* C6: a grid with an id of more than 10 bits is refused, and every entry
\* stored carries the id of the run it stands for.
C6_MaskIdValidated ==
    ScanEnded =>
        /\ ~InRange(pixels_to_mask_id) => scan.status = "Err"
        /\ \A k \in 1..(scan.byte_index \div BYTES_PER_ENTRY) :
                EntryAt(scan.output, k).id = Runs(pixels_to_mask_id)[k].id

----------------------------------------------------------------------------
(* build_config alone: encode's first stage on a range of platforms *)

\* The greatest dimension the model draws, in whole pixels: the greatest
\* that fits the 10-bit field, plus one half-step and more beyond it
MaxDim == Pow2(10) - 1

\* Every dimension from 0 to MaxDim + 1/2, in halves
AllDims == 0..(2 * MaxDim + 1)

\* 0, 1.5, WIDTH of the source (720), 1023, 1023.5 and 1024, in halves
DimSamples == {0, 3, 1440, 2 * MaxDim, 2 * MaxDim + 1, 2 * MaxDim + 2}

ScreenKinds == {"Single", "DualVertical", "DualHorizontal"}

OtherHalf == ScreenSize(200, 90)

WithScreen(kind, w, h, second) ==
    [BasePlatform EXCEPT !.device.screen = Screen(kind, ScreenSize(w, h), second)]

IsCpuPlatform(p) ==
    \E cpu \in CPUTypes, kind \in ScreenKinds :
        p = [BasePlatform EXCEPT
                !.device.cpu = cpu,
                !.device.screen = Screen(kind, ScreenSize(160, 128), OtherHalf)]

\* Every width with sample heights, every height with sample widths, and
\* the dual screens with halves of the same and of different sizes
IsGeometryPlatform(p) ==
    \/ \E w \in AllDims, h \in DimSamples :
            p = WithScreen("Single", w, h, ScreenSize(w, h))
    \/ \E w \in DimSamples, h \in AllDims :
            p = WithScreen("Single", w, h, ScreenSize(w, h))
    \/ \E kind \in ScreenKinds \ {"Single"}, w \in DimSamples, h \in DimSamples :
            \E second \in {OtherHalf, ScreenSize(w, h)} :
                p = WithScreen(kind, w, h, second)

ActionPlatforms ==
    {[BasePlatform EXCEPT !.port_map.ports =
            <<PortB(Some(a)), PortBA(Some(a)), PortACL(Some(a)),
              PortS(3, <<None, Some(a), None, None>>)>>] : a \in NamedActions}

\* The greatest number of ports of a port map the model draws
MaxPorts == 2

SampleBitmaps ==
    {<<None, None, None, None>>,
     <<Some(NamedAction("Button1", FALSE)), None, Some(NamedAction("JoyLeft", TRUE)), None>>}

SampleBits == {None, Some(NamedAction("Start1", FALSE))}

PortAlphabet ==
         {PortS(index, bitmap) : index \in {0, 7, 8}, bitmap \in SampleBitmaps}
    \cup {PortACL(bit) : bit \in SampleBits}
    \cup {PortB(bit) : bit \in SampleBits}
    \cup {PortBA(bit) : bit \in SampleBits}

PortLists == UNION {[1..n -> PortAlphabet] : n \in 0..MaxPorts}

PortPlatforms ==
    {[BasePlatform EXCEPT !.port_map = [ports |-> ports, ground_last_index |-> ground]] :
        ports \in PortLists, ground \in {None, Some(0), Some(7), Some(U8 - 1)}}

\* The greatest length of a revision string the model draws
MaxShaLen == 8

\* The first n characters of a revision of hexadecimal digits
ShaOfLen(n) == [i \in 1..n |-> IF i % 2 = 1 THEN 48 + (i % 10) ELSE 97 + (i % 6)]

ShaSamples == {ShaOfLen(n) : n \in 0..MaxShaLen}

InitConfig ==
    /\ pc = "build_config"
    /\ \/ IsGeometryPlatform(platform) /\ git_sha = ShaOfLen(7)
       \/ IsCpuPlatform(platform) /\ git_sha \in ShaSamples
       \/ platform \in ActionPlatforms \cup PortPlatforms /\ git_sha \in ShaSamples
    /\ background_bytes = Ramp(0)
    /\ mask_bytes = Ramp(100)
    /\ pixels_to_mask_id = [c \in 1..(WIDTH * HEIGHT) |-> None]
    /\ asset_dir = EmptyDir
    /\ output_dir = EmptyOutputDir
    /\ config = <<>>
    /\ result = NoResult
    /\ scan = ScanStart
    /\ MainIdle

SpecConfig == InitConfig /\ [][EncodeBuildConfig]_vars

\* build_config has returned Ok and its bytes begin encode's buffer
HeaderBuilt == pc \in {"image_block", "build_mask_map", "rom", "write"}

\* The action table as the format defines it: the ordinal of an action is
\* its place in this list, from 0; Unused is 0x7F
CanonicalActions ==
    <<"JoyUp", "JoyDown", "JoyLeft", "JoyRight",
      "Button1", "Button2", "Button3", "Button4",
      "Button5", "Button6", "Button7", "Button8",
      "Select", "Start1", "Start2", "Service1", "Service2",
      "LeftJoyUp", "LeftJoyDown", "LeftJoyLeft", "LeftJoyRight",
      "RightJoyUp", "RightJoyDown", "RightJoyLeft", "RightJoyRight",
      "VolumeDown", "PowerOn", "PowerOff", "Keypad", "Custom">>

CanonicalOrdinal(a) ==
    IF a = "Unused" THEN 127
    ELSE (CHOOSE i \in 1..Len(CanonicalActions) : CanonicalActions[i] = a) - 1

CanonicalByte(action) ==
    CanonicalOrdinal(action.action) + (IF action.active_low THEN 128 ELSE 0)

\* What the port map maps a B, BA or ACL port to: the bit of the last port
\* of that kind, None when there is none
RECURSIVE MappedTo(_, _)
MappedTo(ports, kind) ==
    IF ports = <<>> THEN None
    ELSE IF ports[Len(ports)].kind = kind THEN ports[Len(ports)].bit
    ELSE MappedTo(SubSeq(ports, 1, Len(ports) - 1), kind)

\* The header byte at an offset counted from 0
HeaderByte(offset) == config[offset + 1]

PortByteIs(kind, offset, default) ==
    LET bit == MappedTo(platform.port_map.ports, kind)
    IN  HeaderByte(offset) = IF IsSome(bit) THEN CanonicalByte(Unwrap(bit)) ELSE default

\* C5: in the header, an unmapped B port is 0xFF at offset 40, an unmapped
\* BA port 0xFF at offset 41 and an unmapped ACL port 0x7F at offset 42; a
\* mapped port is the byte of its action.
C5_DefaultPortBytes ==
    HeaderBuilt =>
        /\ PortByteIs("B", 40, 255)
        /\ PortByteIs("BA", 41, 255)
        /\ PortByteIs("ACL", 42, 127)

\* C8: the byte of an action has the action's ordinal in its low 7 bits
\* whatever active_low is, has bit 7 set exactly when active_low is, and is
\* the byte of no other action and active_low.
C8_ActionByte ==
    HeaderBuilt =>
        \A kind \in {"B", "BA", "ACL"} :
            LET bit == MappedTo(platform.port_map.ports, kind)
                byte == HeaderByte(CASE kind = "B" -> 40 [] kind = "BA" -> 41
                                     [] kind = "ACL" -> 42)
            IN  IsSome(bit) =>
                    /\ byte % 128 = CanonicalOrdinal(Unwrap(bit).action)
                    /\ byte \div 128 = (IF Unwrap(bit).active_low THEN 1 ELSE 0)
                    /\ \A other \in NamedActions :
                            input_value_for_port(other) = byte => other = Unwrap(bit)

\* The last action of the table, active low, on the B port
C8_Witness ==
    /\ HeaderBuilt
    /\ MappedTo(platform.port_map.ports, "B") = Some(NamedAction("Custom", TRUE))
    /\ HeaderByte(40) = 157

\* Header bytes 3..5 read as one 24-bit number, least significant byte first
GeometryField == HeaderByte(3) + HeaderByte(4) * 256 + HeaderByte(5) * 65536

WholePixels(halves) == halves % 2 = 0 /\ halves \div 2 <= MaxDim

\* C9: for whole widths and heights up to 1023, bits 0..9 of the geometry
\* field are the width, bits 10..19 the height and bits 20..23 zero; a dual
\* screen gives the size of its first half.
C9_GeometryRoundTrip ==
    LET first == platform.device.screen.first
    IN  (HeaderBuilt /\ WholePixels(first.width) /\ WholePixels(first.height)) =>
            /\ GeometryField % 1024 = first.width \div 2
            /\ (GeometryField \div 1024) % 1024 = first.height \div 2
            /\ GeometryField \div (1024 * 1024) = 0

\* A dual screen of 1023 x 720 whose second half has another size
C9_Witness ==
    /\ HeaderBuilt
    /\ platform.device.screen.kind = "DualVertical"
    /\ platform.device.screen.first = ScreenSize(2 * MaxDim, 1440)
    /\ platform.device.screen.second # platform.device.screen.first
    /\ GeometryField = MaxDim + 720 * 1024

----------------------------------------------------------------------------
(* The ROM stage alone, on a range of asset directories *)

\* The greatest number of files of an asset directory the model draws
MaxFiles == 2

FileNameList == <<"ball.rom", "alt.rom", "extra.rom", "more.rom">>

FileNames == {FileNameList[i] : i \in 1..MaxFiles}

FileAlphabet ==
    {FileEntry(name, status, data) :
        name \in FileNames, status \in FileStatuses, data \in {RomA, RomB}}

\* A directory lists each name once
DistinctNames(entries) ==
    \A i, j \in 1..Len(entries) : entries[i].name = entries[j].name => i = j

\* The digest of RomA as the manifest may give it: lowercase, uppercase;
\* and the digest of a file no directory of the model holds
HashSamples ==
    {Sha1Hex(RomA), "7037807198C22A7D2B0807371D763779A84FDFCF", Sha1Hex(<<>>)}

GridNone == [c \in 1..(WIDTH * HEIGHT) |-> None]

\* encode's buffer as the ROM stage finds it: header, image block, mask block
EncodedBeforeRom(p, sha, background, mask, grid) ==
       build_config(p, sha, FALSE).bytes
    \o image_block(background, mask)
    \o build_mask_map(grid).bytes

InitRom ==
    /\ pc = "rom"
    /\ git_sha = ShaOfLen(7)
    /\ \E hash \in HashSamples : platform = [BasePlatform EXCEPT !.rom.rom_hash = hash]
    /\ background_bytes = Ramp(0)
    /\ mask_bytes = Ramp(100)
    /\ pixels_to_mask_id = GridNone
    /\ \E n \in 0..MaxFiles, openable \in BOOLEAN :
         \E entries \in [1..n -> FileAlphabet] :
            /\ DistinctNames(entries)
            /\ asset_dir = [path |-> "gnw/ball", openable |-> openable, entries |-> entries]
    /\ output_dir = EmptyOutputDir
    /\ config = EncodedBeforeRom(platform, git_sha, background_bytes, mask_bytes,
                                 pixels_to_mask_id)
    /\ result = NoResult
    /\ scan = ScanStart
    /\ MainIdle

SpecRom == InitRom /\ [][EncodeRom]_vars

\* The ROM stage has run: encode went on to the write, returned or panicked
RomStageDone == pc \in {"write", "returned", "panic"}

\* The file reads when opened by its path
ReadsOnce(entry) == entry.status \in {"ok", "noseek", "noreread"}

\* The file of the name the platform gives, if the directory has one that reads
ExpectedFile ==
    {i \in 1..Len(asset_dir.entries) :
        /\ asset_dir.entries[i].name = platform.rom.rom
        /\ ReadsOnce(asset_dir.entries[i])}

\* The files whose digest is rom_hash, by their place in the listing
HashMatches ==
    {i \in 1..Len(asset_dir.entries) :
        /\ ReadsOnce(asset_dir.entries[i])
        /\ Sha1Hex(asset_dir.entries[i].data) = platform.rom.rom_hash}

FirstOf(places) == CHOOSE i \in places : \A j \in places : i <= j

EmbedsRom(data) ==
    /\ pc = "write"
    /\ config = EncodedBeforeRom(platform, git_sha, background_bytes, mask_bytes,
                                 pixels_to_mask_id) \o data

FailsNamingPath ==
    /\ pc = "returned"
    /\ result.kind = "Err"
    /\ \E i \in 1..Len(result.msg.paths) :
            result.msg.paths[i] = RomPath(asset_dir, platform.rom.rom)

\* C4: encode embeds the file at the expected path when it reads; otherwise
\* the first file of the directory whose SHA-1 is rom_hash, whatever its
\* name; and when there is neither, or the directory cannot be opened, it
\* fails with a message that has the path it tried first.  (Nothing is said
\* of a matching file that cannot be read a second time.)
C4_RomResolution ==
    RomStageDone =>
        IF ExpectedFile # {}
        THEN EmbedsRom(asset_dir.entries[FirstOf(ExpectedFile)].data)
        ELSE IF ~asset_dir.openable \/ HashMatches = {}
        THEN FailsNamingPath
        ELSE asset_dir.entries[FirstOf(HashMatches)].status = "ok"
                => EmbedsRom(asset_dir.entries[FirstOf(HashMatches)].data)

----------------------------------------------------------------------------
(* encode from its call to its return, on sample devices *)

SampleBitmap ==
    <<Some(NamedAction("Button1", FALSE)), None, Some(NamedAction("JoyLeft", TRUE)), None>>

\* An S port the header has no place for
PlatformBadPort ==
    [BasePlatform EXCEPT !.port_map.ports = <<PortB(None), PortS(8, SampleBitmap)>>]

PlatformMapped ==
    [BasePlatform EXCEPT
        !.device = [cpu |-> "SM5a",
                    screen |-> Screen("DualHorizontal", ScreenSize(2 * MaxDim, 1440), OtherHalf)],
        !.port_map = [ports |-> <<PortS(7, SampleBitmap),
                                  PortB(Some(NamedAction("Start1", FALSE))),
                                  PortS(0, <<None, None, None, None>>),
                                  PortACL(Some(NamedAction("PowerOn", TRUE)))>>,
                      ground_last_index |-> Some(7)],
        !.rom.rom_hash = Sha1Hex(RomB),
        !.metadata.name = "Zelda: Link "]

\* A ground index whose successor does not fit a u8
PlatformGroundMax ==
    [BasePlatform EXCEPT !.port_map.ground_last_index = Some(U8 - 1),
                         !.metadata.name = "Ball"]

EncodePlatforms == {BasePlatform, PlatformBadPort, PlatformMapped, PlatformGroundMax}

\* One run on the first row and one on the last pixel: within the capacity
GridFits ==
    [c \in 1..(WIDTH * HEIGHT) |->
        IF c <= WIDTH THEN Some(0)
        ELSE IF c = WIDTH * HEIGHT THEN Some(Pow2(FIELD_BITS) - 1)
        ELSE None]

\* Every pixel a run of its own: beyond the capacity
GridOverflows ==
    [c \in 1..(WIDTH * HEIGHT) |-> Some(IF c % 2 = 0 THEN 0 ELSE Pow2(FIELD_BITS) - 1)]

SampleGrids == {GridNone, GridFits, GridOverflows}

Dir(path, openable, entries) == [path |-> path, openable |-> openable, entries |-> entries]

\* The directories get_assets may leave: the ROM under its name; under
\* another name; no ROM; and a directory that cannot be listed, with and
\* without the ROM under its name
SampleDirs(path) ==
    {Dir(path, TRUE, <<FileEntry("alt.rom", "ok", RomB), FileEntry("ball.rom", "ok", RomA)>>),
     Dir(path, TRUE, <<FileEntry("alt.rom", "ok", RomA)>>),
     Dir(path, TRUE, <<FileEntry("alt.rom", "nocopy", RomA)>>),
     Dir(path, FALSE, <<FileEntry("ball.rom", "ok", RomA)>>),
     Dir(path, FALSE, <<>>)}

\* The output directory, empty or with a file of an earlier run
SampleOutputDirs ==
    {EmptyOutputDir, [EmptyOutputDir EXCEPT !["Ball.gnw"] = Some(<<9, 9>>)]}

InitEncode ==
    /\ pc = "build_config"
    /\ git_sha \in ShaSamples
    /\ platform \in EncodePlatforms
    /\ background_bytes = Ramp(0)
    /\ mask_bytes = Ramp(100)
    /\ pixels_to_mask_id \in SampleGrids
    /\ asset_dir \in SampleDirs("gnw/ball")
    /\ output_dir \in SampleOutputDirs
    /\ config = <<>>
    /\ result = NoResult
    /\ scan = ScanStart
    /\ MainIdle

NextEncode ==
    \/ EncodeBuildConfig
    \/ EncodeImageBlock
    \/ EncodeMaskBlock
    \/ EncodeRom
    \/ EncodeWrite

SpecEncode == InitEncode /\ [][NextEncode]_vars

\* What the port map maps S port i to: the bitmap of the last S port of
\* that index, None when there is none
RECURSIVE MappedS(_, _)
MappedS(ports, i) ==
    IF ports = <<>> THEN None
    ELSE IF ports[Len(ports)].kind = "S" /\ ports[Len(ports)].index = i
    THEN Some(ports[Len(ports)].bitmap)
    ELSE MappedS(SubSeq(ports, 1, Len(ports) - 1), i)

\* The byte the format gives slot j (from 0) of S port i
ExpectedSlot(ports, i, j) ==
    LET port == MappedS(ports, i)
    IN  IF IsSome(port) /\ IsSome(Unwrap(port)[j + 1])
        THEN CanonicalByte(Unwrap(Unwrap(port)[j + 1]))
        ELSE 127

HEADER_LENGTH == 256

\* file is a header of the fixed layout for the platform and the revision
HeaderLayout(file, p, sha) ==
    LET at(offset) == file[offset + 1]
        field == at(3) + at(4) * 256 + at(5) * 65536
        first == p.device.screen.first
        ports == p.port_map.ports
    IN  /\ at(0) = 1
        /\ at(1) = MpuVersion(p.device.cpu)
        /\ at(2) = (CASE p.device.screen.kind = "Single" -> 0
                      [] p.device.screen.kind = "DualVertical" -> 1
                      [] p.device.screen.kind = "DualHorizontal" -> 2)
        /\ (WholePixels(first.width) /\ WholePixels(first.height)) =>
                field = first.width \div 2 + (first.height \div 2) * 1024
        /\ at(6) = 0 /\ at(7) = 0
        /\ \A i \in 0..7, j \in 0..3 : at(8 + 4 * i + j) = ExpectedSlot(ports, i, j)
        /\ IsSome(MappedTo(ports, "B")) =>
                at(40) = CanonicalByte(Unwrap(MappedTo(ports, "B")))
        /\ IsSome(MappedTo(ports, "BA")) =>
                at(41) = CanonicalByte(Unwrap(MappedTo(ports, "BA")))
        /\ IsSome(MappedTo(ports, "ACL")) =>
                at(42) = CanonicalByte(Unwrap(MappedTo(ports, "ACL")))
        /\ at(43) = (IF IsSome(p.port_map.ground_last_index)
                     THEN (Unwrap(p.port_map.ground_last_index) + 1) % U8 ELSE 0)
        /\ \A offset \in 44..248 : at(offset) = 0
        /\ \A k \in 1..7 :
                at(248 + k) = (IF k <= Len(sha) THEN sha[k] ELSE 0)

\* The pixel block: for each pixel its three colour channels, background
\* byte then mask byte
PixelLayout(block, background, mask) ==
    /\ Len(block) = 6 * (Len(background) \div 4)
    /\ \A px \in 0..((Len(background) \div 4) - 1), ch \in 0..2 :
            /\ block[6 * px + 2 * ch + 1] = background[4 * px + ch + 1]
            /\ block[6 * px + 2 * ch + 2] = mask[4 * px + ch + 1]

EncodeSucceeded == pc = "returned" /\ result.kind = "Ok"

\* C7: a successful encode writes header, pixel block, mask block and ROM
\* in that order; the header is 256 bytes of the fixed layout whatever the
\* port list, the screen and the revision string (empty, shorter than 7
\* characters, longer); the pixel block is 6 bytes a pixel and the mask
\* block 5 * AVERAGE_ENTRIES_PER_ROW * HEIGHT bytes.
C7_FixedLayout ==
    EncodeSucceeded =>
        LET file == Unwrap(output_dir[result.path])
            pixels == 6 * (Len(background_bytes) \div 4)
            rom == rom_data(platform, asset_dir).bytes
        IN  /\ Len(file) = HEADER_LENGTH + pixels + TOTAL_BYTE_LENGTH + Len(rom)
            /\ HeaderLayout(SubSeq(file, 1, HEADER_LENGTH), platform, git_sha)
            /\ PixelLayout(SubSeq(file, HEADER_LENGTH + 1, HEADER_LENGTH + pixels),
                           background_bytes, mask_bytes)
            /\ Entries(SubSeq(file, HEADER_LENGTH + pixels + 1,
                              HEADER_LENGTH + pixels + TOTAL_BYTE_LENGTH))
                    = [k \in 1..Capacity |->
                        IF k <= Len(Runs(pixels_to_mask_id)) THEN Runs(pixels_to_mask_id)[k]
                        ELSE [id |-> 0, start_x |-> 0, y |-> 0, length |-> 0]]
            /\ SubSeq(file, HEADER_LENGTH + pixels + TOTAL_BYTE_LENGTH + 1, Len(file)) = rom

----------------------------------------------------------------------------
(* main: the loop over the devices, from its counters to the summary.     *)
(* get_assets, parse_layout and render are outside these sources: each    *)
(* returns Ok or Err, and what it leaves behind is drawn from samples.    *)

\* The closure fail: the message is printed and fail_count counts up
Fail(c) == [c EXCEPT !.fail_count = c.fail_count + 1]

EncodeVars == <<config, result, scan>>

\* for (name, platform) in platforms { platform_count += 1;
\*     let asset_dir = temp_dir.join(name.clone()); ...
NextDevice ==
    /\ pc = "loop"
    /\ manifest # <<>>
    /\ platform' = Head(manifest).platform
    /\ manifest' = Tail(manifest)
    /\ counts' = [counts EXCEPT !.platform_count = counts.platform_count + 1]
    /\ asset_dir' = Dir(Head(manifest).name, FALSE, <<>>)
    /\ config' = <<>>
    /\ result' = NoResult
    /\ pc' = "get_assets"
    /\ UNCHANGED <<git_sha, background_bytes, mask_bytes, pixels_to_mask_id,
                   output_dir, scan, installed>>

\* if let Err(err) = get_assets(...) { fail or skip; continue; }
GetAssets ==
    /\ pc = "get_assets"
    /\ \/ /\ asset_dir' \in SampleDirs(asset_dir.path)
          /\ pc' = "parse_layout"
          /\ UNCHANGED counts
       \/ /\ counts' = IF ~installed THEN Fail(counts)
                       ELSE [counts EXCEPT !.skip_count = counts.skip_count + 1]
          /\ pc' = "loop"
          /\ UNCHANGED asset_dir
    /\ UNCHANGED <<git_sha, platform, background_bytes, mask_bytes,
                   pixels_to_mask_id, output_dir, manifest, installed>>
    /\ UNCHANGED EncodeVars

\* match parse_layout(...) { Ok(layout) => layout, Err(err) => { fail; continue; } }
ParseLayout ==
    /\ pc = "parse_layout"
    /\ \/ /\ pc' = "render"
          /\ UNCHANGED counts
       \/ /\ counts' = Fail(counts)
          /\ pc' = "loop"
    /\ UNCHANGED <<git_sha, platform, background_bytes, mask_bytes,
                   pixels_to_mask_id, asset_dir, output_dir, manifest, installed>>
    /\ UNCHANGED EncodeVars

\* match render::render(...) { Ok(data) => data, Err(err) => { fail; continue; } }
\* then the call of encode
Render ==
    /\ pc = "render"
    /\ \/ /\ pixels_to_mask_id' \in {GridFits, GridOverflows}
          /\ pc' = "build_config"
          /\ UNCHANGED counts
       \/ /\ counts' = Fail(counts)
          /\ pc' = "loop"
          /\ UNCHANGED pixels_to_mask_id
    /\ UNCHANGED <<git_sha, platform, background_bytes, mask_bytes,
                   asset_dir, output_dir, manifest, installed>>
    /\ UNCHANGED EncodeVars

\* match data_path { Ok(path) => success_count += 1, Err(err) => fail(name, err) }
MatchDataPath ==
    /\ pc = "returned"
    /\ counts' = IF result.kind = "Ok"
                 THEN [counts EXCEPT !.success_count = counts.success_count + 1]
                 ELSE Fail(counts)
    /\ pc' = "loop"
    /\ UNCHANGED <<git_sha, platform, background_bytes, mask_bytes,
                   pixels_to_mask_id, asset_dir, output_dir, manifest, installed>>
    /\ UNCHANGED EncodeVars

\* The loop is over: println!("Total: ..., Success: ..., Fail: ..., Skip: ...")
Summary ==
    /\ pc = "loop"
    /\ manifest = <<>>
    /\ pc' = "summary"
    /\ UNCHANGED <<git_sha, platform, background_bytes, mask_bytes,
                   pixels_to_mask_id, asset_dir, output_dir, manifest, installed,
                   counts>>
    /\ UNCHANGED EncodeVars

\* The number of devices the run processes
NumDevices == 2

\* Manifest keys, in the order the sort leaves them
DeviceNames == <<"gnw_ball", "gnw_dkong", "gnw_mario", "gnw_zelda">>

BatchPlatforms == {BasePlatform, PlatformBadPort, PlatformMapped}

Init ==
    /\ pc = "loop"
    /\ git_sha = ShaOfLen(7)
    /\ platform = BasePlatform
    /\ background_bytes = Ramp(0)
    /\ mask_bytes = Ramp(100)
    /\ pixels_to_mask_id = GridNone
    /\ asset_dir = EmptyDir
    /\ output_dir = EmptyOutputDir
    /\ config = <<>>
    /\ result = NoResult
    /\ scan = ScanStart
    /\ \E platforms \in [1..NumDevices -> BatchPlatforms] :
            manifest = [i \in 1..NumDevices |->
                            [name |-> DeviceNames[i], platform |-> platforms[i]]]
    /\ installed \in BOOLEAN
    /\ counts = NoCounts

Next ==
    \/ NextDevice
    \/ GetAssets
    \/ ParseLayout
    \/ Render
    \/ EncodeBuildConfig
    \/ EncodeImageBlock
    \/ EncodeMaskBlock
    \/ EncodeRom
    \/ EncodeWrite
    \/ MatchDataPath
    \/ Summary

Spec == Init /\ [][Next]_vars

Counted == counts.success_count + counts.skip_count + counts.fail_count

\* C3: whatever fails while one device is encoded fails that device alone:
\* the process does not end there, the device is counted as failed, and
\* the loop comes to the summary with every device processed.
C3_BatchIsolation ==
    /\ pc # "panic"
    /\ pc = "loop" => Counted = counts.platform_count
    /\ pc = "summary" =>
            /\ manifest = <<>>
            /\ counts.platform_count = NumDevices
            /\ Counted = NumDevices

----------------------------------------------------------------------------
(* encode: the order of its stages and the error it returns *)

Stages == <<"build_config", "image_block", "build_mask_map", "rom", "write">>

IsStage(at) == \E i \in 1..Len(Stages) : Stages[i] = at

StageIndex(at) == CHOOSE i \in 1..Len(Stages) : Stages[i] = at

\* The inputs on which a stage fails, read off the inputs alone
HeaderFails ==
    \E i \in 1..Len(platform.port_map.ports) :
        /\ platform.port_map.ports[i].kind = "S"
        /\ platform.port_map.ports[i].index > 7

MaskFails == Len(Runs(pixels_to_mask_id)) > Capacity

RomFails ==
    /\ ExpectedFile = {}
    /\ \/ ~asset_dir.openable
       \/ HashMatches = {}
       \/ asset_dir.entries[FirstOf(HashMatches)].status # "ok"

StageFails(at) ==
    CASE at = "build_config" -> HeaderFails
      [] at = "build_mask_map" -> MaskFails
      [] at = "rom" -> RomFails
      [] OTHER -> FALSE

\* The words by which the error of a stage is known
ErrorText(at) ==
    CASE at = "build_config" -> "Port index "
      [] at = "build_mask_map" -> "More entries ("
      [] at = "rom" -> "Could not open ROM "
      [] OTHER -> ""

ErrorIsOf(err, at) == \E i \in 1..Len(err.msg.text) : err.msg.text[i] = ErrorText(at)

\* This step takes encode from the stage it is at to its caller
Leaves == IsStage(pc) /\ ~IsStage(pc')

\* This step goes from one stage to the next of the order
StepsInOrder == IsStage(pc') => StageIndex(pc') = StageIndex(pc) + 1

\* This step returns the error of the stage it is at, the earliest to fail
ReturnsFirstError ==
    /\ pc' = "returned"
    /\ result'.kind = "Err"
    /\ StageFails(pc)
    /\ ErrorIsOf(result', pc)
    /\ \A i \in 1..(StageIndex(pc) - 1) : ~StageFails(Stages[i])

\* C11: encode runs header, pixel block, mask block, ROM resolution and
\* write in that order; when stages would fail, what encode returns is the
\* error of the earliest of them and no later stage runs; and the output
\* file is created or overwritten only by the write stage, after every
\* earlier stage succeeded.
C11_StageOrder ==
    [][/\ pc' # pc => (Leaves \/ StepsInOrder)
       /\ (Leaves /\ result'.kind # "Ok") => ReturnsFirstError
       /\ (Leaves /\ result'.kind = "Ok") =>
                /\ pc = "write"
                /\ \A i \in 1..Len(Stages) : ~StageFails(Stages[i])
       /\ output_dir' # output_dir =>
                /\ pc = "write"
                /\ \A i \in 1..Len(Stages) : ~StageFails(Stages[i])]_vars

====
